---- MODULE Spec2Model ----
(***************************************************************************)
(* Model of fundsp's panner and mixing matrix (src/src/pan.rs) over the    *)
(* numeric kernel (src/src/math.rs).                                       *)
(*                                                                         *)
(* The units are generic over the sample type T (f32 or f64).  A sample is *)
(* modelled by the number it holds: a signed dyadic rational s * m * 2^e   *)
(* whose mantissa m is a natural number of arbitrary size, kept as a       *)
(* little-endian sequence of base-4096 digits.  Arithmetic of T is exact   *)
(* dyadic arithmetic followed by IEEE-754 round-to-nearest-even to the     *)
(* precision of T.  Exponent range is not modelled: all values of the      *)
(* model stay far inside the normal range of both types.                   *)
(***************************************************************************)
EXTENDS Integers, Sequences, FiniteSets, TLC

(***************************************************************************)
(* Natural numbers of arbitrary size.                                      *)
(***************************************************************************)
\* digits are 12 bits wide, so that a product of two digits stays a small integer
Base == 64 * 64

\* the number of bits of the digit d
DigitLen(d) == Cardinality({k \in 0..12 : 2 ^ k <= d})

DigitBits == DigitLen(Base) - 1

RECURSIVE BNorm(_)
BNorm(a) ==
    IF a = << >> THEN << >>
    ELSE IF a[Len(a)] = 0 THEN BNorm(SubSeq(a, 1, Len(a) - 1))
    ELSE a

RECURSIVE BAddC(_, _, _)
BAddC(a, b, c) ==
    IF a = << >> /\ b = << >> THEN (IF c = 0 THEN << >> ELSE <<c>>)
    ELSE LET x == IF a = << >> THEN 0 ELSE Head(a)
             y == IF b = << >> THEN 0 ELSE Head(b)
             s == x + y + c
         IN  <<s % Base>> \o BAddC(IF a = << >> THEN a ELSE Tail(a),
                                   IF b = << >> THEN b ELSE Tail(b),
                                   s \div Base)

BAdd(a, b) == BAddC(a, b, 0)

\* a - b for a >= b
RECURSIVE BSubC(_, _, _)
BSubC(a, b, c) ==
    IF a = << >> THEN << >>
    ELSE LET y == IF b = << >> THEN 0 ELSE Head(b)
             d == Head(a) - y - c
         IN  <<d % Base>> \o BSubC(Tail(a),
                                   IF b = << >> THEN b ELSE Tail(b),
                                   IF d < 0 THEN 1 ELSE 0)

BSub(a, b) == BNorm(BSubC(a, b, 0))

\* -1, 0, 1 as a is below, equal to, above b
RECURSIVE BCmpEq(_, _, _)
BCmpEq(a, b, i) ==
    IF i = 0 THEN 0
    ELSE IF a[i] < b[i] THEN -1
    ELSE IF a[i] > b[i] THEN 1
    ELSE BCmpEq(a, b, i - 1)

BCmp(a, b) ==
    IF Len(a) < Len(b) THEN -1
    ELSE IF Len(a) > Len(b) THEN 1
    ELSE BCmpEq(a, b, Len(a))

RECURSIVE BMulD(_, _, _)
BMulD(a, d, c) ==
    IF a = << >> THEN (IF c = 0 THEN << >> ELSE <<c>>)
    ELSE LET p == Head(a) * d + c
         IN  <<p % Base>> \o BMulD(Tail(a), d, p \div Base)

\* a * Base^n
BShiftDigits(a, n) == IF a = << >> THEN a ELSE [i \in 1..n |-> 0] \o a

RECURSIVE BMul(_, _)
BMul(a, b) ==
    IF a = << >> \/ b = << >> THEN << >>
    ELSE BAdd(BNorm(BMulD(a, Head(b), 0)), BShiftDigits(BMul(a, Tail(b)), 1))

BitLen(a) == IF a = << >> THEN 0 ELSE DigitBits * (Len(a) - 1) + DigitLen(a[Len(a)])

\* a * 2^k
BShl(a, k) ==
    IF k = 0 THEN a
    ELSE IF k % DigitBits = 0 THEN BShiftDigits(a, k \div DigitBits)
    ELSE BShiftDigits(BNorm(BMulD(a, 2 ^ (k % DigitBits), 0)), k \div DigitBits)

\* floor(a / 2^k)
BShr(a, k) ==
    IF k = 0 THEN a ELSE
    LET n == k \div DigitBits
        r == k % DigitBits
        b == IF n >= Len(a) THEN << >> ELSE SubSeq(a, n + 1, Len(a))
    IN  BNorm([i \in 1..Len(b) |->
                 (b[i] \div (2 ^ r))
                 + (IF i < Len(b) THEN (b[i + 1] % (2 ^ r)) * (2 ^ (DigitBits - r)) ELSE 0)])

\* number of trailing zero bits of a > 0
RECURSIVE BTZ(_)
BTZ(a) ==
    IF Head(a) = 0 THEN DigitBits + BTZ(Tail(a))
    ELSE Cardinality({k \in 1..DigitBits : Head(a) % (2 ^ k) = 0})

\* a small natural number as a digit sequence
RECURSIVE BNat(_)
BNat(n) == IF n = 0 THEN << >> ELSE <<n % Base>> \o BNat(n \div Base)

(***************************************************************************)
(* Numbers: [s |-> sign bit, m |-> odd mantissa, e |-> exponent], zero is  *)
(* m = << >>, e = 0 and keeps its sign as IEEE-754 zeros do.               *)
(***************************************************************************)
\* the number s * m * 2^e with the trailing zero bits of m moved into the exponent
Canon(s, m, e) ==
    IF m = << >> THEN [s |-> s, m |-> << >>, e |-> 0]
    ELSE [s |-> s, m |-> BShr(m, BTZ(m)), e |-> e + BTZ(m)]

Num(n) == Canon(IF n < 0 THEN 1 ELSE 0, BNat(IF n < 0 THEN -n ELSE n), 0)

IsZero(x) == x.m = << >>

Neg(x) == [x EXCEPT !.s = 1 - x.s]

Abs(x) == [x EXCEPT !.s = 0]

\* the product of odd mantissas is odd: no bit moves into the exponent
ExMul(x, y) ==
    IF IsZero(x) \/ IsZero(y) THEN [s |-> (x.s + y.s) % 2, m |-> << >>, e |-> 0]
    ELSE [s |-> (x.s + y.s) % 2,
          m |-> IF x.m = <<1>> THEN y.m ELSE IF y.m = <<1>> THEN x.m ELSE BMul(x.m, y.m),
          e |-> x.e + y.e]

\* sum of nonzero numbers of opposite sign whose mantissas at exponent e
\* are mx and my and compare as c
ExAddOpposite(x, y, e, mx, my, c) ==
    IF c = 0 THEN [s |-> 0, m |-> << >>, e |-> 0]
    ELSE IF c > 0 THEN Canon(x.s, BSub(mx, my), e)
    ELSE Canon(y.s, BSub(my, mx), e)

ExAddAligned(x, y, e, mx, my) ==
    IF x.s = y.s THEN Canon(x.s, BAdd(mx, my), e)
    ELSE ExAddOpposite(x, y, e, mx, my, BCmp(mx, my))

ExAddAt(x, y, e) == ExAddAligned(x, y, e, BShl(x.m, x.e - e), BShl(y.m, y.e - e))

ExAdd(x, y) ==
    IF IsZero(x) /\ IsZero(y) THEN [s |-> IF x.s = 1 /\ y.s = 1 THEN 1 ELSE 0, m |-> << >>, e |-> 0]
    ELSE IF IsZero(x) THEN y
    ELSE IF IsZero(y) THEN x
    ELSE ExAddAt(x, y, IF x.e < y.e THEN x.e ELSE y.e)

ExSub(x, y) == ExAdd(x, Neg(y))

\* -1, 0, 1 as x is below, equal to, above y (the zeros compare equal)
Cmp(x, y) ==
    IF IsZero(ExSub(x, y)) THEN 0 ELSE IF ExSub(x, y).s = 1 THEN -1 ELSE 1

Lt(x, y) == Cmp(x, y) < 0
Le(x, y) == Cmp(x, y) <= 0

\* x * 2^k
Scale2(x, k) == IF IsZero(x) THEN x ELSE [x EXCEPT !.e = x.e + k]

(***************************************************************************)
(* The sample types and their arithmetic.                                  *)
(***************************************************************************)
Types == {"f32", "f64"}

\* significand precision in bits
Prec(T) == IF T = "f32" THEN 24 ELSE 53

\* round to nearest, ties to even, to p significant bits
\* the mantissa q kept of x after its k lowest bits are dropped.  The lowest
\* bit of a mantissa is 1, so the dropped bits are half a unit of q when
\* k = 1 (a tie: q goes to even) and otherwise above or below half a unit as
\* the highest dropped bit, bit k - 1 of the mantissa, is 1 or 0.
RoundKeep(x, k, q) ==
    Canon(x.s,
          IF (IF k = 1 THEN Head(q) % 2 = 1
              ELSE (x.m[((k - 1) \div DigitBits) + 1] \div (2 ^ ((k - 1) % DigitBits))) % 2 = 1)
          THEN BAdd(q, <<1>>) ELSE q,
          x.e + k)

RoundP(p, x) ==
    IF BitLen(x.m) <= p THEN x
    ELSE RoundKeep(x, BitLen(x.m) - p, BShr(x.m, BitLen(x.m) - p))

Round(T, x) == RoundP(Prec(T), x)

FAdd(T, x, y) == Round(T, ExAdd(x, y))
FMul(T, x, y) == Round(T, ExMul(x, y))

from_f64(T, x) == Round(T, x)

\* widening to f64 keeps the value: every f32 and f64 number has at most 53 bits
to_f64(T, x) == Round("f64", x)

One == Num(1)

max(x, y) == IF Lt(x, y) THEN y ELSE x
min(x, y) == IF Lt(y, x) THEN y ELSE x

\* std::f64::consts::PI
PI == [s |-> 0, m |-> <<1443, 2184, 3946, 579, 3>>, e |-> -48]

(***************************************************************************)
(* cos and sin are the platform's libm (cosf, sinf for f32; cos, sin for   *)
(* f64): the table holds its results at every angle the model computes.    *)
(***************************************************************************)
LibmTable ==
    {
      [T |-> "f32", x |-> [s |-> 1, m |-> <<4059, 3216>>, e |-> -24],
       cos |-> [s |-> 0, m |-> <<1267, 2896>>, e |-> -24],
       sin |-> [s |-> 1, m |-> <<1267, 2896>>, e |-> -24]],
      [T |-> "f32", x |-> [s |-> 0, m |-> <<>>, e |-> 0],
       cos |-> [s |-> 0, m |-> <<1>>, e |-> 0],
       sin |-> [s |-> 0, m |-> <<>>, e |-> 0]],
      [T |-> "f32", x |-> [s |-> 0, m |-> <<761, 603>>, e |-> -23],
       cos |-> [s |-> 0, m |-> <<2571, 3919>>, e |-> -24],
       sin |-> [s |-> 0, m |-> <<25, 1189>>, e |-> -24]],
      [T |-> "f32", x |-> [s |-> 0, m |-> <<4059, 3216>>, e |-> -24],
       cos |-> [s |-> 0, m |-> <<1267, 2896>>, e |-> -24],
       sin |-> [s |-> 0, m |-> <<1267, 2896>>, e |-> -24]],
      [T |-> "f32", x |-> [s |-> 0, m |-> <<761, 603>>, e |-> -21],
       cos |-> [s |-> 0, m |-> <<3861, 3134>>, e |-> -25],
       sin |-> [s |-> 0, m |-> <<431, 1892>>, e |-> -23]],
      [T |-> "f32", x |-> [s |-> 0, m |-> <<4059, 3216>>, e |-> -23],
       cos |-> [s |-> 1, m |-> <<3735, 1501>>, e |-> -47],
       sin |-> [s |-> 0, m |-> <<1>>, e |-> 0]],
      [T |-> "f32", x |-> [s |-> 0, m |-> <<761, 603>>, e |-> -20],
       cos |-> [s |-> 1, m |-> <<1267, 2896>>, e |-> -24],
       sin |-> [s |-> 0, m |-> <<1267, 2896>>, e |-> -24]],
      [T |-> "f64", x |-> [s |-> 1, m |-> <<1443, 2184, 3946, 579, 3>>, e |-> -50],
       cos |-> [s |-> 0, m |-> <<3021, 2035, 3686, 2569, 22>>, e |-> -53],
       sin |-> [s |-> 1, m |-> <<3827, 2556, 1945, 2690, 5>>, e |-> -51]],
      [T |-> "f64", x |-> [s |-> 0, m |-> <<>>, e |-> 0],
       cos |-> [s |-> 0, m |-> <<1>>, e |-> 0],
       sin |-> [s |-> 0, m |-> <<>>, e |-> 0]],
      [T |-> "f64", x |-> [s |-> 0, m |-> <<233, 2457, 3647, 1739, 9>>, e |-> -53],
       cos |-> [s |-> 0, m |-> <<1773, 1585, 171, 1274, 15>>, e |-> -52],
       sin |-> [s |-> 0, m |-> <<3845, 3417, 1582, 2368, 18>>, e |-> -54]],
      [T |-> "f64", x |-> [s |-> 0, m |-> <<1443, 2184, 3946, 579, 3>>, e |-> -50],
       cos |-> [s |-> 0, m |-> <<3021, 2035, 3686, 2569, 22>>, e |-> -53],
       sin |-> [s |-> 0, m |-> <<3827, 2556, 1945, 2690, 5>>, e |-> -51]],
      [T |-> "f64", x |-> [s |-> 0, m |-> <<233, 2457, 3647, 1739, 9>>, e |-> -51],
       cos |-> [s |-> 0, m |-> <<2649, 2746, 2217, 503, 6>>, e |-> -52],
       sin |-> [s |-> 0, m |-> <<1699, 2452, 1511, 3203, 14>>, e |-> -52]],
      [T |-> "f64", x |-> [s |-> 0, m |-> <<1443, 2184, 3946, 579, 3>>, e |-> -49],
       cos |-> [s |-> 0, m |-> <<3079, 325, 1587, 2658, 17>>, e |-> -106],
       sin |-> [s |-> 0, m |-> <<1>>, e |-> 0]],
      [T |-> "f64", x |-> [s |-> 0, m |-> <<233, 2457, 3647, 1739, 9>>, e |-> -50],
       cos |-> [s |-> 1, m |-> <<3827, 2556, 1945, 2690, 5>>, e |-> -51],
       sin |-> [s |-> 0, m |-> <<3021, 2035, 3686, 2569, 22>>, e |-> -53]],
      [T |-> "f64", x |-> [s |-> 1, m |-> <<3625, 3861, 2360, 198, 16>>, e |-> -56],
       cos |-> [s |-> 0, m |-> <<3653, 1404, 2591, 4031, 7>>, e |-> -51],
       sin |-> [s |-> 1, m |-> <<1409, 2035, 2167, 155, 16>>, e |-> -56]],
      [T |-> "f64", x |-> [s |-> 1, m |-> <<1443, 2184, 3946, 579, 3>>, e |-> -48],
       cos |-> [s |-> 1, m |-> <<1>>, e |-> 0],
       sin |-> [s |-> 1, m |-> <<3079, 325, 1587, 2658, 17>>, e |-> -105]]
    }

Libm(T, x) == CHOOSE r \in LibmTable : r.T = T /\ r.x = x

cos(T, x) == Libm(T, x).cos
sin(T, x) == Libm(T, x).sin

clamp01(x) == min(max(x, Num(0)), One)

\* a faulty clamp11 that lets every value through
clamp_none(x) == x

clamp11(x) == min(max(x, Num(-1)), One)

(***************************************************************************)
(* Division in T: the quotient of the mantissas is taken digit by digit to *)
(* two bits more than T keeps, with a last bit that records whether more   *)
(* followed, and rounded as every result of T.                             *)
(***************************************************************************)
\* the largest digit q = d + k * w, k in 0..15, with b * q <= r: one base-16 place
\* of the quotient digit of r by b
QPlace(r, b, d, w) ==
    d + w * Cardinality({k \in 1..15 : BCmp(BNorm(BMulD(b, d + k * w, 0)), r) <= 0})

\* floor(r / b) for r < b * Base, found one base-16 place after the other
QDigit(r, b) == QPlace(r, b, QPlace(r, b, QPlace(r, b, 0, 256), 16), 1)

\* quotient q and remainder r of a by b, with the lowest i digits of a to come
RECURSIVE BDivDigits(_, _, _, _, _)
\* a step works on a settled quotient and remainder
BDivStep(a, b, i, q, r) == IF Len(q) + Len(r) >= 0 THEN BDivDigits(a, b, i, q, r) ELSE << >>

BDivDigit(a, b, i, q, r, d) ==
    BDivStep(a, b, i, <<d>> \o q, BSub(r, BNorm(BMulD(b, d, 0))))

BDivDigits(a, b, i, q, r) ==
    IF i = 0 THEN <<BNorm(q), r>>
    ELSE BDivDigit(a, b, i - 1, q, BNorm(<<a[i]>> \o r),
                   QDigit(BNorm(<<a[i]>> \o r), b))

\* the leading Len(b) - 1 digits of a are below b and are the first remainder
BDivMod(a, b) ==
    IF Len(a) < Len(b) THEN <<<< >>, a>>
    ELSE BDivDigits(a, b, Len(a) - Len(b) + 1, << >>,
                    BNorm(SubSeq(a, Len(a) - Len(b) + 2, Len(a))))

DivSticky(s, qr, e) ==
    IF qr[2] = << >> THEN Canon(s, qr[1], e)
    ELSE [s |-> s, m |-> BAdd(BShl(qr[1], 1), <<1>>), e |-> e - 1]

DivShift(p, x, y) ==
    IF p + 2 + BitLen(y.m) > BitLen(x.m) THEN p + 2 + BitLen(y.m) - BitLen(x.m) ELSE 0

DivAt(x, y, k) ==
    DivSticky((x.s + y.s) % 2, BDivMod(BShl(x.m, k), y.m), x.e - y.e - k)

\* x / y for a number x and a nonzero number y
FDiv(T, x, y) ==
    IF IsZero(x) THEN [s |-> (x.s + y.s) % 2, m |-> << >>, e |-> 0]
    ELSE IF y.m = <<1>> THEN Round(T, [s |-> (x.s + y.s) % 2, m |-> x.m, e |-> x.e - y.e])
    ELSE Round(T, DivAt(x, y, DivShift(Prec(T), x, y)))

(***************************************************************************)
(* The values of T that are no numbers, and the arithmetic of T on all its *)
(* values as IEEE-754 defines it.                                          *)
(***************************************************************************)
Inf(s) == [s |-> s, m |-> <<0>>, e |-> 1]

NaN == [s |-> 0, m |-> <<0>>, e |-> 2]

IsInf(x) == x.m = <<0>> /\ x.e = 1

Zero(s) == [s |-> s, m |-> << >>, e |-> 0]

add(T, x, y) ==
    IF x = NaN \/ y = NaN THEN NaN
    ELSE IF IsInf(x) THEN (IF IsInf(y) /\ y.s # x.s THEN NaN ELSE x)
    ELSE IF IsInf(y) THEN y
    ELSE FAdd(T, x, y)

sub(T, x, y) == add(T, x, IF y = NaN THEN NaN ELSE Neg(y))

mul(T, x, y) ==
    IF x = NaN \/ y = NaN THEN NaN
    ELSE IF IsInf(x) \/ IsInf(y)
         THEN (IF IsZero(x) \/ IsZero(y) THEN NaN ELSE Inf((x.s + y.s) % 2))
    ELSE FMul(T, x, y)

\* a faulty division that yields zero when the divisor is zero
div_guarded(T, x, y) ==
    IF x = NaN \/ y = NaN THEN NaN
    ELSE IF IsInf(x) THEN (IF IsInf(y) THEN NaN ELSE Inf((x.s + y.s) % 2))
    ELSE IF IsInf(y) \/ IsZero(y) THEN Zero((x.s + y.s) % 2)
    ELSE FDiv(T, x, y)

div(T, x, y) ==
    IF x = NaN \/ y = NaN THEN NaN
    ELSE IF IsInf(x) THEN (IF IsInf(y) THEN NaN ELSE Inf((x.s + y.s) % 2))
    ELSE IF IsInf(y) THEN Zero((x.s + y.s) % 2)
    ELSE IF IsZero(y) THEN (IF IsZero(x) THEN NaN ELSE Inf((x.s + y.s) % 2))
    ELSE FDiv(T, x, y)

(***************************************************************************)
(* The interpolation helpers of the numeric kernel.  exp, log and pow are  *)
(* the platform's libm: where IEEE-754 fixes the result it is computed,    *)
(* elsewhere the tables hold the results at the arguments of the model.    *)
(***************************************************************************)
Half == Scale2(One, -1)

signum(x) == IF x = NaN THEN NaN ELSE IF x.s = 1 THEN Num(-1) ELSE One

abs(x) == IF x = NaN THEN NaN ELSE Abs(x)

squared(T, x) == mul(T, x, x)

cubed(T, x) == mul(T, mul(T, x, x), x)

LogTable ==
    {
      [T |-> "f32", x |-> [s |-> 0, m |-> <<1>>, e |-> -1], y |-> [s |-> 1, m |-> <<3651, 354>>, e |-> -21]],
      [T |-> "f32", x |-> [s |-> 0, m |-> <<1>>, e |-> 1], y |-> [s |-> 0, m |-> <<3651, 354>>, e |-> -21]],
      [T |-> "f64", x |-> [s |-> 0, m |-> <<1>>, e |-> -1], y |-> [s |-> 1, m |-> <<2543, 4003, 766, 740, 22>>, e |-> -53]],
      [T |-> "f64", x |-> [s |-> 0, m |-> <<1>>, e |-> 1], y |-> [s |-> 0, m |-> <<2543, 4003, 766, 740, 22>>, e |-> -53]]
    }

ExpTable ==
    {
      [T |-> "f32", x |-> [s |-> 1, m |-> <<3651, 354>>, e |-> -21], y |-> [s |-> 0, m |-> <<1>>, e |-> -1]],
      [T |-> "f32", x |-> [s |-> 0, m |-> <<3651, 354>>, e |-> -22], y |-> [s |-> 0, m |-> <<1267, 2896>>, e |-> -23]],
      [T |-> "f32", x |-> [s |-> 0, m |-> <<3651, 354>>, e |-> -21], y |-> [s |-> 0, m |-> <<1>>, e |-> 1]],
      [T |-> "f32", x |-> [s |-> 0, m |-> <<3651, 354>>, e |-> -20], y |-> [s |-> 0, m |-> <<1>>, e |-> 2]],
      [T |-> "f64", x |-> [s |-> 1, m |-> <<2543, 4003, 766, 740, 22>>, e |-> -53], y |-> [s |-> 0, m |-> <<1>>, e |-> -1]],
      [T |-> "f64", x |-> [s |-> 0, m |-> <<2543, 4003, 766, 740, 22>>, e |-> -54], y |-> [s |-> 0, m |-> <<3827, 2556, 1945, 2690, 5>>, e |-> -50]],
      [T |-> "f64", x |-> [s |-> 0, m |-> <<2543, 4003, 766, 740, 22>>, e |-> -53], y |-> [s |-> 0, m |-> <<1>>, e |-> 1]],
      [T |-> "f64", x |-> [s |-> 0, m |-> <<2543, 4003, 766, 740, 22>>, e |-> -52], y |-> [s |-> 0, m |-> <<1>>, e |-> 2]]
    }

PowTable ==
    {
      [T |-> "f32", x |-> [s |-> 0, m |-> <<1>>, e |-> -1], y |-> [s |-> 0, m |-> <<425>>, e |-> -3], z |-> [s |-> 0, m |-> <<199, 3756>>, e |-> -77]],
      [T |-> "f32", x |-> [s |-> 0, m |-> <<1>>, e |-> -1], y |-> [s |-> 0, m |-> <<125>>, e |-> 3], z |-> [s |-> 0, m |-> <<>>, e |-> 0]],
      [T |-> "f64", x |-> [s |-> 0, m |-> <<1>>, e |-> -1], y |-> [s |-> 0, m |-> <<425>>, e |-> -3], z |-> [s |-> 0, m |-> <<1159, 4026, 2268, 1409, 29>>, e |-> -106]],
      [T |-> "f64", x |-> [s |-> 0, m |-> <<1>>, e |-> -1], y |-> [s |-> 0, m |-> <<125>>, e |-> 3], z |-> [s |-> 0, m |-> <<1>>, e |-> -1000]]
    }

log(T, x) ==
    IF x = NaN THEN NaN
    ELSE IF IsZero(x) THEN Inf(1)
    ELSE IF x.s = 1 THEN NaN
    ELSE IF IsInf(x) THEN x
    ELSE IF x = One THEN Zero(0)
    ELSE (CHOOSE r \in LogTable : r.T = T /\ r.x = x).y

exp(T, x) ==
    IF x = NaN THEN NaN
    ELSE IF IsInf(x) THEN (IF x.s = 1 THEN Zero(0) ELSE x)
    ELSE IF IsZero(x) THEN One
    ELSE (CHOOSE r \in ExpTable : r.T = T /\ r.x = x).y

\* x to the power y for numbers x >= 0 and y >= 0
pow(T, x, y) ==
    IF IsZero(y) \/ x = One THEN One
    ELSE IF IsZero(x) THEN Zero(0)
    ELSE IF y = One THEN x
    ELSE (CHOOSE r \in PowTable : r.T = T /\ r.x = x /\ r.y = y).z

\* a faulty lerp that weighs the ends the wrong way round
lerp_reversed(T, a, b, t) == add(T, mul(T, a, t), mul(T, b, sub(T, One, t)))

\* self * (T::one() - t) + other * t
lerp(T, a, b, t) == add(T, mul(T, a, sub(T, One, t)), mul(T, b, t))

lerp11(T, a, b, t) == lerp(T, a, b, add(T, mul(T, t, Half), Half))

delerp(T, a, b, x) == div(T, sub(T, x, a), sub(T, b, a))

delerp11(T, a, b, x) ==
    sub(T, mul(T, div(T, sub(T, x, a), sub(T, b, a)), Num(2)), One)

xerp(T, a, b, t) == exp(T, lerp(T, log(T, a), log(T, b), t))

xerp11(T, a, b, t) ==
    exp(T, lerp(T, log(T, a), log(T, b), add(T, mul(T, t, Half), Half)))

dexerp(T, a, b, x) == div(T, log(T, div(T, x, a)), log(T, div(T, b, a)))

dexerp11(T, a, b, x) ==
    sub(T, mul(T, div(T, log(T, div(T, x, a)), log(T, div(T, b, a))), Num(2)), One)

\* (signum(da) + signum(db)) * min(da + db, min(abs(da), abs(db)))
splinem_slope(T, da, db) ==
    mul(T, add(T, signum(da), signum(db)), min(add(T, da, db), min(abs(da), abs(db))))

\* the cubic of splinem for the slopes d1d and d2d
splinem_cubic(T, y1, y2, d1d, d2d, x) ==
    add(T, add(T, add(T, mul(T, mul(T, mul(T, x, x), x),
                             add(T, add(T, sub(T, mul(T, Num(2), y1), mul(T, Num(2), y2)),
                                        d1d), d2d)),
                         mul(T, mul(T, x, x),
                             sub(T, sub(T, add(T, mul(T, Num(-3), y1), mul(T, Num(3), y2)),
                                        mul(T, Num(2), d1d)), d2d))),
                  mul(T, x, d1d)),
           y1)

splinem(T, y0, y1, y2, y3, x) ==
    splinem_cubic(T, y1, y2,
                  splinem_slope(T, sub(T, y1, y0), sub(T, y2, y1)),
                  splinem_slope(T, sub(T, y2, y1), sub(T, y3, y2)), x)

\* the closure sigmoid returns, applied to x
sigmoid_ease(T, power, x) ==
    IF Lt(x, Half) THEN mul(T, Half, pow(T, mul(T, x, Num(2)), power))
    ELSE sub(T, One, mul(T, Half, pow(T, mul(T, sub(T, One, x), Num(2)), power)))

\* power = squared(sharpness) * (T::new(100) + T::new(900) * cubed(sharpness))
sigmoid(T, sharpness, x) ==
    sigmoid_ease(T, mul(T, squared(T, sharpness),
                           add(T, Num(100), mul(T, Num(900), cubed(T, sharpness)))), x)

(***************************************************************************)
(* Inputs of the model.                                                    *)
(***************************************************************************)
\* longest block given to process
MaxLen == 2

\* the f64 literal 0.1
Tenth == [s |-> 0, m |-> <<3277, 3276, 3276, 3276, 12>>, e |-> -55]

PanValues == {Num(-2), Num(-1), Scale2(Num(-5), -3), Num(0), Scale2(One, -1), One, Num(2)}

\* pan values on the control channel of a block
BlockPans == {Scale2(Num(-5), -3), Num(2)}

Samples(T) == {One, from_f64(T, Neg(Tenth))}

\* real and imaginary parts of the signal descriptors given to route
SignalParts == {Num(0), One, Scale2(One, -1), Neg(Tenth)}

(***************************************************************************)
(* The panner.                                                             *)
(***************************************************************************)
\* faulty pan laws: the cosine on both channels, the channels exchanged
cos_cos(T, angle) == <<cos(T, angle), cos(T, angle)>>

sin_cos(T, angle) == <<sin(T, angle), cos(T, angle)>>

\* (angle.cos(), angle.sin())
cos_sin(T, angle) == <<cos(T, angle), sin(T, angle)>>

pan_weights(T, value) ==
    cos_sin(T, FMul(T, FAdd(T, clamp11(value), One),
                       from_f64(T, FMul("f64", PI, Scale2(One, -2)))))

(***************************************************************************)
(* pan_weights and the products of T on the values the model gives them,   *)
(* computed once and looked up afterwards.                                 *)
(***************************************************************************)
PanWeights == {<<<<t, v>>, pan_weights(t, v)>> : t \in Types, v \in PanValues}

Lookup(table, key) == (CHOOSE r \in table : r[1] = key)[2]

Weights(T, value) == Lookup(PanWeights, <<T, value>>)

Gains(T) == UNION {{r[2][1], r[2][2]} : r \in {q \in PanWeights : q[1][1] = T}}

\* the samples and the sums of two samples
Sums(T) == Samples(T) \cup {FAdd(T, x, y) : x \in Samples(T), y \in Samples(T)}

\* the factors of the products of T: weights, samples and their sums, and in
\* f64 also the parts of the descriptors and the weights and samples of f32
Operands(T) ==
    Gains(T) \cup Sums(T) \cup
    (IF T = "f64" THEN SignalParts \cup Gains("f32") \cup Sums("f32") ELSE {})

\* the products of T that tick, process and route take, by their first factor
Products ==
    UNION {{<<<<t, x>>, {<<y, FMul(t, x, y)>> : y \in Operands(t)}>> : x \in Operands(t)} :
              t \in Types}

\* x * y in T: looked up where the table holds it, computed elsewhere
Mul(T, x, y) ==
    IF \E r \in Products : r[1] = <<T, x>> /\ \E q \in r[2] : q[1] = y
    THEN Lookup(Lookup(Products, <<T, x>>), y)
    ELSE FMul(T, x, y)

set_pan(T, value) == Weights(T, value)

new(T, value) == Weights(T, value)

\* a faulty set that takes the setting for a value in 0...1
set_positive(T, setting) == set_pan(T, clamp01(setting))

set(T, setting) == set_pan(T, setting)

\* the frame a tick returns under the weights w, and the weights it leaves
tick_output(T, w, input) ==
    [w |-> w, output |-> <<Mul(T, w[1], input[1]), Mul(T, w[2], input[1])>>]

\* a faulty tick that scales by the weights stored before it reads the control
tick_stale(T, N, w, input) ==
    [w |-> IF N > 1 THEN set_pan(T, input[2]) ELSE w,
     output |-> <<Mul(T, w[1], input[1]), Mul(T, w[2], input[1])>>]

\* a faulty tick that falls back to the centre when there is no control input
tick_centred(T, N, w, input) ==
    tick_output(T, set_pan(T, IF N > 1 THEN input[2] ELSE Num(0)), input)

\* one sample: input is the frame <<mono>> or <<mono, pan>>, w the stored weights
tick(T, N, w, input) ==
    tick_output(T, IF N > 1 THEN set_pan(T, input[2]) ELSE w, input)

\* dst[..size].clone_from_slice(&src[..size])
clone_from_slice(dst, src, size) ==
    [i \in 1..Len(dst) |-> IF i <= size THEN src[i] ELSE dst[i]]

\* output[c][i] *= w[c] on both channels
scale_at(T, w, output, i) ==
    <<[output[1] EXCEPT ![i] = Mul(T, @, w[1])],
      [output[2] EXCEPT ![i] = Mul(T, @, w[2])]>>

RECURSIVE process_loop(_, _, _, _, _, _, _)
process_step(T, N, w, size, input, output, i) ==
    process_loop(T, N, w, size, input, scale_at(T, w, output, i), i + 1)

process_loop(T, N, w, size, input, output, i) ==
    IF i > size THEN [w |-> w, output |-> output]
    ELSE process_step(T, N, IF N > 1 THEN set_pan(T, input[2][i]) ELSE w,
                      size, input, output, i)

\* a faulty process that never reads the control channel
process_fixed(T, N, w, size, input, output) ==
    process_loop(T, 1, w, size, input,
                 <<clone_from_slice(output[1], input[1], size),
                   clone_from_slice(output[2], input[1], size)>>, 1)

\* a block: input holds N channel buffers, output the two buffers to fill
process(T, N, w, size, input, output) ==
    process_loop(T, N, w, size, input,
                 <<clone_from_slice(output[1], input[1], size),
                   clone_from_slice(output[2], input[1], size)>>, 1)

(***************************************************************************)
(* Signal descriptors of the response queries: no definite response, or a  *)
(* complex gain in f64.                                                    *)
(***************************************************************************)
Unknown == [kind |-> "unknown"]

Response(re, im) == [kind |-> "response", re |-> re, im |-> im]

\* Signal::scale
SignalScale(signal, factor) ==
    IF signal.kind = "response"
    THEN Response(Mul("f64", signal.re, factor), Mul("f64", signal.im, factor))
    ELSE signal

\* Signal::combine_linear with no extra latency and addition as the combiner
combine_linear(signal, other) ==
    IF signal.kind = "response" /\ other.kind = "response"
    THEN Response(FAdd("f64", signal.re, other.re), FAdd("f64", signal.im, other.im))
    ELSE Unknown

Signals == {Unknown, Response(One, Num(0)), Response(Scale2(One, -1), Neg(Tenth))}

new_signal_frame(size) == [i \in 1..size |-> Unknown]

\* the panner's response: the stored weights taken as constant gains
route_scaled(T, w, input, output) ==
    [[output EXCEPT ![1] = SignalScale(input[1], to_f64(T, w[1]))]
        EXCEPT ![2] = SignalScale(input[1], to_f64(T, w[2]))]

\* a faulty route that scales the descriptor of the last input
route_last(T, w, input, frequency) ==
    route_scaled(T, w, <<input[Len(input)]>>, new_signal_frame(2))

route(T, w, input, frequency) == route_scaled(T, w, input, new_signal_frame(2))

(***************************************************************************)
(* The mixing matrix: matrix[i] is the row of coefficients of output i.    *)
(***************************************************************************)
Mixer_new(matrix) == [matrix |-> matrix]

\* value += x * y over input.iter().zip(matrix[i].iter()), from index j on
RECURSIVE zip_sum(_, _, _, _, _)
zip_sum(T, input, row, j, value) ==
    IF j > Len(input) \/ j > Len(row) THEN value
    ELSE zip_sum(T, input, row, j + 1, FAdd(T, value, Mul(T, input[j], row[j])))

\* faulty ticks: one that drops the last input, one that sums from 1
Mixer_tick_truncated(T, N, matrix, input) ==
    [i \in 1..N |-> zip_sum(T, SubSeq(input, 1, Len(input) - 1), matrix[i], 1, Num(0))]

Mixer_tick_biased(T, N, matrix, input) ==
    [i \in 1..N |-> zip_sum(T, input, matrix[i], 1, One)]

Mixer_tick(T, N, matrix, input) ==
    [i \in 1..N |-> zip_sum(T, input, matrix[i], 1, Num(0))]

\* the outcomes of a call that can panic: reading element 0 of a frame that
\* has none panics (index out of bounds), else the call returns its output
Panic == [panic |-> TRUE]

Returned(output) == [panic |-> FALSE, output |-> output]

\* output[i] combined with the scaled descriptors of the inputs from j on
RECURSIVE route_sum(_, _, _, _, _, _)
route_sum(T, M, row, input, j, output) ==
    IF j > M THEN output
    ELSE route_sum(T, M, row, input, j + 1,
                   combine_linear(output, SignalScale(input[j], to_f64(T, row[j]))))

Mixer_route(T, M, N, matrix, input, frequency) ==
    IF N > 0 /\ M = 0 THEN Panic
    ELSE Returned([i \in 1..N |->
                     route_sum(T, M, matrix[i], input, 2,
                               SignalScale(input[1], to_f64(T, matrix[i][1])))])

(***************************************************************************)
(* Further inputs of the model.                                            *)
(***************************************************************************)
\* content of an output buffer the caller hands in: no number of the model
Unwritten == [s |-> 0, m |-> << >>, e |-> 1]

Frequencies == {Num(440), Num(22050)}

Seqs(S, n) == [1..n -> S]

Frames(T, N) == IF N > 1 THEN {<<x, p>> : x \in Samples(T), p \in PanValues}
                ELSE {<<x>> : x \in Samples(T)}

Blocks(T, N, size) ==
    IF N > 1 THEN {<<xs, ps>> : xs \in Seqs(Samples(T), size), ps \in Seqs(BlockPans, size)}
    ELSE {<<xs>> : xs \in Seqs(Samples(T), size)}

\* the values of type Setting = T given to set
Settings(T) == {from_f64(T, value) : value \in PanValues}

\* the output buffers a caller hands to process
Buffers == <<[i \in 1..MaxLen |-> Unwritten], [i \in 1..MaxLen |-> Unwritten]>>

\* largest number of operators applied to a unit
MaxDepth == 3

\* largest channel counts of a mixer
MaxInputs == 2
MaxOutputs == 2

\* descriptors given to the mixer's route
MixerSignals == {Unknown, Response(Scale2(One, -1), Neg(Tenth))}

Coefficients(T) == {One, from_f64(T, Neg(Tenth))}

\* rows of M coefficients that alternate between two values
Rows(T, M) ==
    {[j \in 1..M |-> IF j % 2 = 1 THEN a ELSE b] : a \in Coefficients(T), b \in Coefficients(T)}

Matrices(T, M, N) == Seqs(Rows(T, M), N)

\* arguments of the interpolation helpers: data points, positions in a
\* segment, sharpnesses, interval ends, parameters, and the ends and
\* parameters given to the exponential helpers
Reals(T) == {from_f64(T, x) : x \in {Num(0), One, Tenth, Num(3)}}

Params(T) == {from_f64(T, t) : t \in {Num(-1), Num(0), Half, One, Tenth}}

Ends(T) == {from_f64(T, x) : x \in {Num(-1), Num(0), One, Num(2)}}

(***************************************************************************)
(* A unit as a state machine: its sample type T, its channel counts, its   *)
(* fields, the last call made on it and what the call returned.  latest    *)
(* records the pan value the panner was last given: by new, by set, or on  *)
(* the control input of the 2-input panner.                                *)
(***************************************************************************)
VARIABLES Sample, Inputs, Outputs, unit, call, result, latest

vars == <<Sample, Inputs, Outputs, unit, call, result, latest>>

Panner(w) == [left_weight |-> w[1], right_weight |-> w[2]]

weights == <<unit.left_weight, unit.right_weight>>

\* the call name(arg) made in the current state returns output and leaves fields
Returns(name, arg, fields, output) ==
    /\ unit' = fields
    /\ call' = [name |-> name, arg |-> arg, pre |-> unit]
    /\ result' = output
    /\ UNCHANGED <<Sample, Inputs, Outputs>>

Done(name, arg, r) == Returns(name, arg, Panner(r.w), r.output)

Init ==
    /\ Sample \in Types
    /\ Inputs \in {1, 2}
    /\ Outputs = 2
    /\ \E value \in PanValues :
          /\ unit = Panner(new(Sample, value))
          /\ call = [name |-> "new", arg |-> value, pre |-> << >>]
          /\ latest = value
    /\ result = << >>

Set ==
    \E setting \in Settings(Sample) :
       /\ Done("set", setting, [w |-> set(Sample, setting), output |-> << >>])
       /\ latest' = setting

Tick ==
    \E input \in Frames(Sample, Inputs) :
       /\ Done("tick", input, tick(Sample, Inputs, weights, input))
       /\ latest' = IF Inputs > 1 THEN input[2] ELSE latest

Process ==
    \E size \in 0..MaxLen :
       \E input \in Blocks(Sample, Inputs, size) :
          /\ Done("process", [size |-> size, input |-> input],
                  process(Sample, Inputs, weights, size, input, Buffers))
          /\ latest' = IF Inputs > 1 /\ size > 0 THEN input[2][size] ELSE latest

Route ==
    \E input \in Seqs(Signals, Inputs), frequency \in Frequencies :
       /\ Returns("route", [input |-> input, frequency |-> frequency], unit,
                  route(Sample, weights, input, frequency))
       /\ UNCHANGED latest

Next == Set \/ Tick \/ Process \/ Route

Spec == Init /\ [][Next]_vars

(***************************************************************************)
(* The mixing matrix as a state machine.                                   *)
(***************************************************************************)
MixerInit ==
    /\ Sample \in Types
    /\ Inputs \in 0..MaxInputs
    /\ Outputs \in 0..MaxOutputs
    /\ \E matrix \in Matrices(Sample, Inputs, Outputs) :
          /\ unit = Mixer_new(matrix)
          /\ call = [name |-> "new", arg |-> matrix, pre |-> << >>]
    /\ result = << >>
    /\ latest = << >>

MixerTick ==
    \E input \in Seqs(Samples(Sample), Inputs) :
       /\ Returns("tick", input, unit, Mixer_tick(Sample, Outputs, unit.matrix, input))
       /\ UNCHANGED latest

MixerRoute ==
    \E input \in Seqs(MixerSignals, Inputs), frequency \in Frequencies :
       /\ Returns("route", [input |-> input, frequency |-> frequency], unit,
                  Mixer_route(Sample, Inputs, Outputs, unit.matrix, input, frequency))
       /\ UNCHANGED latest

MixerNext == MixerTick \/ MixerRoute

MixerSpec == MixerInit /\ [][MixerNext]_vars

(***************************************************************************)
(* The interpolation helpers as a state machine: call holds the name and   *)
(* the arguments of a call of a helper, and the one step is its return.    *)
(***************************************************************************)
\* the calls of the model: a helper's name and its arguments
Call(name, arg) == [name |-> name, arg |-> arg, pre |-> << >>]

\* the calls of the model; delerp and delerp11 are called on numbers and on
\* what lerp and lerp11 return for their ends
Calls(T) ==
    {Call("splinem", [y0 |-> y[1], y1 |-> y[2], y2 |-> y[3], y3 |-> y[4], x |-> x]) :
        y \in [1..4 -> {Num(0), One, Num(2)}],
        x \in {Num(0), Scale2(One, -2), Half, Scale2(Num(3), -2), One}}
    \cup {Call("sigmoid", [sharpness |-> sharpness, x |-> x]) :
             sharpness \in {Num(0), Half, One},
             x \in {Num(0), Scale2(One, -2), Half, Scale2(Num(3), -2), One}}
    \cup {Call(name, [a |-> a, b |-> b, t |-> t]) :
             name \in {"lerp", "lerp11"}, a \in Reals(T), b \in Reals(T), t \in Params(T)}
    \cup UNION {{Call(name, [a |-> a, b |-> b, x |-> x]) :
                    name \in {"delerp", "delerp11"},
                    x \in Reals(T) \cup {lerp(T, a, b, t) : t \in Params(T)}
                                  \cup {lerp11(T, a, b, t) : t \in Params(T)}} :
                 a \in Reals(T), b \in Reals(T)}
    \cup {Call("xerp", [a |-> a, b |-> b, t |-> t]) :
             a \in Ends(T), b \in Ends(T), t \in {Num(0), Half, One, Num(2)}}
    \cup {Call("xerp11", [a |-> a, b |-> b, t |-> t]) :
             a \in Ends(T), b \in Ends(T), t \in {Num(-1), Num(0), One}}
    \cup {Call(name, [a |-> a, b |-> b, x |-> x]) :
             name \in {"dexerp", "dexerp11"}, a \in Ends(T), b \in Ends(T), x \in Ends(T)}

\* a call is made on arguments of the sample type and has not returned yet
MathInit ==
    /\ Sample \in Types
    /\ Inputs = 0
    /\ Outputs = 0
    /\ unit = << >>
    /\ call \in Calls(Sample)
    /\ result = Unwritten
    /\ latest = << >>

\* the call returns value
Applied(value) ==
    /\ result = Unwritten
    /\ result' = value
    /\ UNCHANGED <<Sample, Inputs, Outputs, unit, call, latest>>

Splinem ==
    /\ call.name = "splinem"
    /\ Applied(splinem(Sample, call.arg.y0, call.arg.y1, call.arg.y2, call.arg.y3,
                       call.arg.x))

Sigmoid ==
    /\ call.name = "sigmoid"
    /\ Applied(sigmoid(Sample, call.arg.sharpness, call.arg.x))

Lerp ==
    /\ call.name = "lerp"
    /\ Applied(lerp(Sample, call.arg.a, call.arg.b, call.arg.t))

Lerp11 ==
    /\ call.name = "lerp11"
    /\ Applied(lerp11(Sample, call.arg.a, call.arg.b, call.arg.t))

Delerp ==
    /\ call.name = "delerp"
    /\ Applied(delerp(Sample, call.arg.a, call.arg.b, call.arg.x))

Delerp11 ==
    /\ call.name = "delerp11"
    /\ Applied(delerp11(Sample, call.arg.a, call.arg.b, call.arg.x))

Xerp ==
    /\ call.name = "xerp"
    /\ Applied(xerp(Sample, call.arg.a, call.arg.b, call.arg.t))

Xerp11 ==
    /\ call.name = "xerp11"
    /\ Applied(xerp11(Sample, call.arg.a, call.arg.b, call.arg.t))

Dexerp ==
    /\ call.name = "dexerp"
    /\ Applied(dexerp(Sample, call.arg.a, call.arg.b, call.arg.x))

Dexerp11 ==
    /\ call.name = "dexerp11"
    /\ Applied(dexerp11(Sample, call.arg.a, call.arg.b, call.arg.x))

MathNext ==
    \/ Splinem \/ Sigmoid \/ Lerp \/ Lerp11 \/ Delerp \/ Delerp11
    \/ Xerp \/ Xerp11 \/ Dexerp \/ Dexerp11

MathSpec == MathInit /\ [][MathNext]_vars

(***************************************************************************)
(* Composed units.  A unit of a graph is its operator, its children, its   *)
(* coefficients and its channel counts; depth counts the operators that   *)
(* were applied to its first leaf.  The operators are pass, tick (the      *)
(* delay of one sample), pan, mixer, mul (a unit times a constant), pipe   *)
(* (>>), bus (&), stack (|) and branch (^).                                *)
(***************************************************************************)
Node(op, kids, matrix, inputs, outputs) ==
    [op |-> op, kids |-> kids, matrix |-> matrix, inputs |-> inputs, outputs |-> outputs,
     depth |-> IF kids = << >> THEN 0 ELSE 1 + kids[1].depth]

pass == Node("pass", << >>, << >>, 1, 1)

tick_node == Node("tick", << >>, << >>, 1, 1)

\* the units a graph starts from: pass, tick, the panners of 1 and 2 inputs
\* and a mixer of 2 inputs and 1 output
Leaves ==
    {pass, tick_node, Node("mixer", << >>, <<<<One, One>>>>, 2, 1)}
    \cup {Node("pan", << >>, <<new("f64", Num(0))>>, N, 2) : N \in {1, 2}}

\* a composition that sums outputs whatever its operator
compose_summed(op, a, b) ==
    Node(op, <<a, b>>, << >>,
         IF op = "stack" THEN a.inputs + b.inputs ELSE a.inputs,
         a.outputs + b.outputs)

\* the unit a op b: its counts follow from those of a and b
compose(op, a, b) ==
    Node(op, <<a, b>>, << >>,
         IF op = "stack" THEN a.inputs + b.inputs ELSE a.inputs,
         CASE op = "pipe" -> b.outputs
           [] op = "bus" -> a.outputs
           [] OTHER -> a.outputs + b.outputs)

\* what an operator requires of the counts of its operands
fits(op, a, b) ==
    CASE op = "pipe" -> a.outputs = b.inputs
      [] op = "bus" -> a.inputs = b.inputs /\ a.outputs = b.outputs
      [] op = "branch" -> a.inputs = b.inputs
      [] OTHER -> TRUE

\* a filter that leaves the descriptor as it is
SignalFilter_identity(signal, gain) == signal

\* a descriptor times a complex gain
SignalFilter(signal, gain) ==
    IF signal.kind = "response"
    THEN Response(sub("f64", mul("f64", signal.re, gain.re), mul("f64", signal.im, gain.im)),
                  add("f64", mul("f64", signal.re, gain.im), mul("f64", signal.im, gain.re)))
    ELSE signal

\* the gain of one sample of delay at the default sample rate, of modulus 1
\* and angle -TAU * frequency / rate, computed once for every frequency
TickGains ==
    {<<frequency,
       LET angle == FDiv("f64", FMul("f64", Neg(Scale2(PI, 1)), frequency), Num(44100))
       IN  Response(cos("f64", angle), sin("f64", angle))>> : frequency \in Frequencies}

\* route of a composed unit
RECURSIVE unit_route(_, _, _)
unit_route(u, input, frequency) ==
    CASE u.op = "pass" -> input
      [] u.op = "tick" ->
           <<SignalFilter(input[1], Lookup(TickGains, frequency))>>
      [] u.op = "pan" -> route("f64", u.matrix[1], input, frequency)
      [] u.op = "mixer" ->
           Mixer_route("f64", u.inputs, u.outputs, u.matrix, input, frequency).output
      [] u.op = "mul" ->
           LET x == unit_route(u.kids[1], input, frequency)
           IN  [i \in DOMAIN x |-> SignalScale(x[i], u.matrix[1][1])]
      [] u.op = "pipe" ->
           unit_route(u.kids[2], unit_route(u.kids[1], input, frequency), frequency)
      [] u.op = "bus" ->
           LET x == unit_route(u.kids[1], input, frequency)
               y == unit_route(u.kids[2], input, frequency)
           IN  [i \in DOMAIN x |-> combine_linear(x[i], y[i])]
      [] u.op = "stack" ->
           unit_route(u.kids[1], SubSeq(input, 1, u.kids[1].inputs), frequency)
           \o unit_route(u.kids[2], SubSeq(input, u.kids[1].inputs + 1, Len(input)), frequency)
      [] u.op = "branch" ->
           unit_route(u.kids[1], input, frequency) \o unit_route(u.kids[2], input, frequency)

(***************************************************************************)
(* A graph as a state machine: unit is the composed unit, Inputs and       *)
(* Outputs the counts it reports, and a step applies an operator to it or  *)
(* asks for its response to unit gain on every input.                      *)
(***************************************************************************)
GraphInit ==
    /\ Sample = "f64"
    /\ unit \in Leaves
    /\ Inputs = unit.inputs
    /\ Outputs = unit.outputs
    /\ call = [name |-> "new", arg |-> << >>, pre |-> << >>]
    /\ result = << >>
    /\ latest = << >>

\* the operator named yields u
Composed(name, arg, u) ==
    /\ u.depth <= MaxDepth
    /\ unit' = u
    /\ Inputs' = u.inputs
    /\ Outputs' = u.outputs
    /\ call' = [name |-> name, arg |-> arg, pre |-> unit]
    /\ result' = << >>
    /\ UNCHANGED <<Sample, latest>>

MulScalar ==
    \E k \in {Half} :
       /\ fits("mul", unit, unit)
       /\ Composed("mul", k, Node("mul", <<unit>>, <<<<k>>>>, unit.inputs, unit.outputs))

Pipe ==
    \E b \in {tick_node, Node("mixer", << >>, <<<<One, One>>>>, 2, 1)} :
       fits("pipe", unit, b) /\ Composed("pipe", b, compose("pipe", unit, b))

Bus ==
    \E b \in {tick_node, compose("pipe", tick_node, tick_node),
              compose("pipe", Node("mul", <<tick_node>>, <<<<Half>>>>, 1, 1), tick_node)} :
       fits("bus", unit, b) /\ Composed("bus", b, compose("bus", unit, b))

Stack ==
    \E b \in {pass} :
       fits("stack", unit, b) /\ Composed("stack", b, compose("stack", unit, b))

Branch ==
    \E b \in {tick_node} :
       fits("branch", unit, b) /\ Composed("branch", b, compose("branch", unit, b))

GraphRoute ==
    \E frequency \in Frequencies :
       /\ Returns("route", [frequency |-> frequency], unit,
                  unit_route(unit, [i \in 1..Inputs |-> Response(One, Num(0))], frequency))
       /\ UNCHANGED latest

GraphNext == MulScalar \/ Pipe \/ Bus \/ Stack \/ Branch \/ GraphRoute

GraphSpec == GraphInit /\ [][GraphNext]_vars

(***************************************************************************)
(* Properties of the panner.                                               *)
(***************************************************************************)
\* the weights the last call found stored (the call is not the construction)
pre_weights == <<call.pre.left_weight, call.pre.right_weight>>

\* pi/4 as pan_weights forms it
QuarterPi(T) == from_f64(T, FMul("f64", PI, Scale2(One, -2)))

\* the machine epsilon of T: the gap between 1 and the next number of T
Epsilon(T) == Scale2(One, 1 - Prec(T))

Within(x, y, tolerance) == Le(Abs(ExSub(x, y)), tolerance)

\* the last call derived the weights from a pan value
Derives ==
    \/ call.name \in {"new", "set"}
    \/ Inputs = 2 /\ call.name = "tick"
    \/ Inputs = 2 /\ call.name = "process" /\ call.arg.size > 0

\* the pan value it derived them from
DerivedPan ==
    IF call.name \in {"new", "set"} THEN call.arg
    ELSE IF call.name = "tick" THEN call.arg[2]
    ELSE call.arg.input[2][call.arg.size]

frame_at(N, input, i) == IF N > 1 THEN <<input[1][i], input[2][i]>> ELSE <<input[1][i]>>

\* ticks on the frames i..size of a block, from the weights w: the frames they
\* return after the given ones, and the weights they leave
RECURSIVE TickRun(_, _, _, _, _, _, _)
TickRun(T, N, w, input, size, i, frames) ==
    IF i > size THEN [w |-> w, frames |-> frames]
    ELSE LET r == tick(T, N, w, frame_at(N, input, i))
         IN  TickRun(T, N, r.w, input, size, i + 1, Append(frames, r.output))

\* C1: one process call of length L writes at every index below L of the two
\* output buffers what L successive ticks on the frames of the block return,
\* and leaves the weights those ticks leave, for the 1-input and the 2-input
\* panner and from any stored weights.
C1_ProcessMatchesTicks ==
    call.name = "process" =>
       LET r == TickRun(Sample, Inputs, pre_weights, call.arg.input, call.arg.size, 1, << >>)
       IN  /\ \A i \in 1..call.arg.size :
                /\ result[1][i] = r.frames[i][1]
                /\ result[2][i] = r.frames[i][2]
           /\ weights = r.w

C1_Witness ==
    /\ call.name = "process" /\ Inputs = 2 /\ call.arg.size >= 2
    /\ call.arg.input[2][1] # call.arg.input[2][2]
    /\ call.arg.input[1][1] # call.arg.input[1][2]
    /\ result[1][1] # result[1][2]
    /\ weights # pre_weights

\* left_weight^2 + right_weight^2 computed in T, and its exact distance from 1
PowerIn(T) ==
    FAdd(T, FMul(T, unit.left_weight, unit.left_weight),
            FMul(T, unit.right_weight, unit.right_weight))

PowerError ==
    Abs(ExSub(ExAdd(ExMul(unit.left_weight, unit.left_weight),
                    ExMul(unit.right_weight, unit.right_weight)), One))

\* C2 as stated: in every state the stored weights have
\* left_weight^2 + right_weight^2 equal to 1, computed in T or exactly.
C2_EqualPowerExact == PowerIn(Sample) = One \/ IsZero(PowerError)

\* C2: in every state left_weight^2 + right_weight^2 is 1 up to rounding: its
\* exact distance from 1 is at most two machine epsilons of the sample type.
C2_EqualPowerRounded == Le(PowerError, Scale2(Epsilon(Sample), 1))

C2_Witness ==
    /\ call.name = "process" /\ Inputs = 2 /\ call.arg.size > 0
    /\ Le(Num(-1), DerivedPan) /\ Le(DerivedPan, One)
    /\ PowerIn(Sample) # One
    /\ ~IsZero(PowerError)

\* C3 as stated: pan 0 gives equal weights cos(pi/4), pan -1 gives (1, 0) and
\* pan +1 gives (0, 1).
C3_EndpointsExact ==
    Derives =>
       /\ DerivedPan = Num(0) =>
             /\ unit.left_weight = unit.right_weight
             /\ unit.left_weight = cos(Sample, QuarterPi(Sample))
       /\ DerivedPan = Num(-1) => unit.left_weight = One /\ IsZero(unit.right_weight)
       /\ DerivedPan = One => IsZero(unit.left_weight) /\ unit.right_weight = One

\* C3: pan -1 gives exactly (1, 0); pan +1 gives the right weight exactly 1 and
\* a left weight within one machine epsilon of 0; pan 0 gives the left weight
\* cos(pi/4) and a right weight within one machine epsilon of it.
C3_Endpoints ==
    Derives =>
       /\ DerivedPan = Num(0) =>
             /\ Within(unit.left_weight, unit.right_weight, Epsilon(Sample))
             /\ unit.left_weight = cos(Sample, QuarterPi(Sample))
       /\ DerivedPan = Num(-1) => unit.left_weight = One /\ IsZero(unit.right_weight)
       /\ DerivedPan = One =>
             /\ Within(unit.left_weight, Num(0), Epsilon(Sample))
             /\ unit.right_weight = One

C3_Witness ==
    /\ call.name = "tick" /\ Inputs = 2
    /\ DerivedPan = One
    /\ ~IsZero(unit.left_weight)
    /\ unit.right_weight = One

\* C4: on every path that derives weights (new, set, the control input of
\* tick and of process) a pan value below -1 yields the weights of -1, a value
\* above +1 the weights of +1, and a value inside [-1, 1] is used unchanged.
C4_Clamped ==
    Derives =>
       /\ Lt(DerivedPan, Num(-1)) => weights = pan_weights(Sample, Num(-1))
       /\ Lt(One, DerivedPan) => weights = pan_weights(Sample, One)
       /\ Le(Num(-1), DerivedPan) /\ Le(DerivedPan, One) =>
             weights = cos_sin(Sample, FMul(Sample, FAdd(Sample, DerivedPan, One),
                                                    QuarterPi(Sample)))

C4_Witness ==
    /\ call.name = "process" /\ Inputs = 2 /\ call.arg.size >= 2
    /\ Lt(One, DerivedPan)
    /\ Lt(call.arg.input[2][1], One)
    /\ weights = pan_weights(Sample, One)
    /\ weights # pre_weights

\* C5: in the 2-input panner every tick and every index of a block scales
\* the mono sample by the weights of that sample's own control value, whatever
\* the weights stored before, and the call leaves the weights of the last
\* control value.
C5_LiveControl ==
    Inputs = 2 =>
       /\ call.name = "tick" =>
             /\ \A c \in 1..2 :
                   result[c] = FMul(Sample, pan_weights(Sample, call.arg[2])[c], call.arg[1])
             /\ weights = pan_weights(Sample, call.arg[2])
       /\ call.name = "process" =>
             /\ \A i \in 1..call.arg.size : \A c \in 1..2 :
                   result[c][i] = FMul(Sample, call.arg.input[1][i],
                                       pan_weights(Sample, call.arg.input[2][i])[c])
             /\ call.arg.size > 0 =>
                   weights = pan_weights(Sample, call.arg.input[2][call.arg.size])
             /\ call.arg.size = 0 => weights = pre_weights

C5_Witness ==
    /\ call.name = "tick" /\ Inputs = 2
    /\ pre_weights # pan_weights(Sample, call.arg[2])
    /\ result # <<FMul(Sample, pre_weights[1], call.arg[1]),
                  FMul(Sample, pre_weights[2], call.arg[1])>>
    /\ weights # pre_weights

\* the descriptor scaled by a weight of the sample type
Scaled(signal, w) ==
    IF signal.kind = "response"
    THEN Response(FMul("f64", signal.re, to_f64(Sample, w)),
                  FMul("f64", signal.im, to_f64(Sample, w)))
    ELSE Unknown

\* C6: route returns two descriptors, the descriptor of input 0 scaled by the
\* stored left and right weight; the control input's descriptor and the
\* frequency make no difference, and the weights stay as they were.
C6_FrozenRoute ==
    call.name = "route" =>
       /\ Len(result) = 2
       /\ result[1] = Scaled(call.arg.input[1], call.pre.left_weight)
       /\ result[2] = Scaled(call.arg.input[1], call.pre.right_weight)
       /\ \A control \in Signals, frequency \in Frequencies :
             result = route(Sample, pre_weights,
                            [call.arg.input EXCEPT ![Inputs] =
                                IF Inputs = 2 THEN control ELSE @], frequency)
       /\ unit = call.pre

C6_Witness ==
    /\ call.name = "route" /\ Inputs = 2
    /\ call.arg.input[1].kind = "response"
    /\ call.arg.input[2] # call.arg.input[1]
    /\ result[1] # result[2]
    /\ result[1] # call.arg.input[1]
    /\ ~IsZero(unit.right_weight)

\* C7: a set(v) from any state leaves the weights pan_weights(v), the state of
\* a panner newly built with v, whatever was set before (the last set wins,
\* and a second set(v) changes nothing), and changes nothing but the weights.
C7_SetReplaces ==
    [][Set =>
          /\ weights' = pan_weights(Sample, call'.arg)
          /\ unit' = Panner(new(Sample, call'.arg))
          /\ (call.name = "set" /\ call.arg = call'.arg => unit' = unit)
          /\ UNCHANGED <<Sample, Inputs, Outputs>>]_vars

C7_Witness ==
    /\ call.name = "set"
    /\ unit # call.pre
    /\ Lt(One, call.arg)
    /\ weights = pan_weights(Sample, One)

\* C18: in the 1-input panner the stored weights are, in every state, the
\* pan_weights of the value last given to set, or of the constructor's value
\* when set was never called; tick, process and route leave them as they found
\* them, and every output sample of tick and of process is the mono sample
\* times the left weight and times the right weight.
C18_OnlySetChangesWeights ==
    Inputs = 1 =>
       /\ weights = pan_weights(Sample, latest)
       /\ call.name \in {"tick", "process", "route"} => unit = call.pre
       /\ call.name = "tick" =>
             result = <<FMul(Sample, unit.left_weight, call.arg[1]),
                        FMul(Sample, unit.right_weight, call.arg[1])>>
       /\ call.name = "process" =>
             \A i \in 1..call.arg.size :
                /\ result[1][i] = FMul(Sample, unit.left_weight, call.arg.input[1][i])
                /\ result[2][i] = FMul(Sample, unit.right_weight, call.arg.input[1][i])

C18_Witness ==
    /\ Inputs = 1 /\ call.name = "process" /\ call.arg.size >= 2
    /\ latest = Scale2(One, -1)
    /\ call.arg.input[1][1] # call.arg.input[1][2]
    /\ result[1][1] # result[2][1]
    /\ result[1][1] # result[1][2]
    /\ weights # pan_weights(Sample, Num(0))

(***************************************************************************)
(* Properties of the mixing matrix.                                        *)
(***************************************************************************)
\* the sum of input[j] * row[j] over the first n inputs, taken in T from zero
RECURSIVE DotProduct(_, _, _, _)
DotProduct(T, input, row, n) ==
    IF n = 0 THEN Num(0)
    ELSE FAdd(T, DotProduct(T, input, row, n - 1), FMul(T, input[n], row[n]))

\* C8: tick returns a frame of length N whose element i is the sum over the
\* M inputs of input[j] * matrix[i][j], all zeros when M = 0; it leaves the
\* matrix as it was, and the same tick again returns the same frame.
C8_MatrixVector ==
    call.name = "tick" =>
       /\ DOMAIN result = 1..Outputs
       /\ \A i \in 1..Outputs :
             /\ result[i] = DotProduct(Sample, call.arg, unit.matrix[i], Inputs)
             /\ Inputs = 0 => result[i] = Num(0)
       /\ unit = call.pre
       /\ result = Mixer_tick(Sample, Outputs, unit.matrix, call.arg)

C8_Witness ==
    /\ call.name = "tick" /\ Inputs = 2 /\ Outputs = 2
    /\ call.arg[1] # call.arg[2]
    /\ unit.matrix[1] # unit.matrix[2]
    /\ unit.matrix[1][1] # unit.matrix[1][2]
    /\ result[1] # result[2]

FrameAdd(T, x, y) == [j \in DOMAIN x |-> FAdd(T, x[j], y[j])]

\* tick(x) + tick(y) and tick(x + y) for the frame x of the last tick
SumOfTicks(y) ==
    FrameAdd(Sample, result, Mixer_tick(Sample, Outputs, unit.matrix, y))

TickOfSum(y) ==
    Mixer_tick(Sample, Outputs, unit.matrix, FrameAdd(Sample, call.arg, y))

\* the exact sum of |row[j]| * (|x[j]| + |y[j]|) over the first n inputs
RECURSIVE Magnitude(_, _, _, _)
Magnitude(row, x, y, n) ==
    IF n = 0 THEN Num(0)
    ELSE ExAdd(Magnitude(row, x, y, n - 1),
               ExMul(Abs(row[n]), ExAdd(Abs(x[n]), Abs(y[n]))))

\* C9 as stated: for every matrix and all frames x and y,
\* tick(x) + tick(y) equals tick(x + y) in every element.
C9_AdditiveExact ==
    call.name = "tick" =>
       \A y \in Seqs(Samples(Sample), Inputs) : \A i \in 1..Outputs :
          Cmp(SumOfTicks(y)[i], TickOfSum(y)[i]) = 0

\* C9: tick(x) + tick(y) and tick(x + y) agree in every element i up to
\* rounding: they differ by at most M + 2 machine epsilons of
\* the sum over j of |matrix[i][j]| * (|x[j]| + |y[j]|).
C9_AdditiveRounded ==
    call.name = "tick" =>
       \A y \in Seqs(Samples(Sample), Inputs) : \A i \in 1..Outputs :
          Within(SumOfTicks(y)[i], TickOfSum(y)[i],
                 ExMul(ExMul(Num(Inputs + 2), Epsilon(Sample)),
                       Magnitude(unit.matrix[i], call.arg, y, Inputs)))

C9_Witness ==
    /\ call.name = "tick" /\ Inputs = 2 /\ Outputs > 0
    /\ \E y \in Seqs(Samples(Sample), Inputs) :
          /\ y # call.arg
          /\ Cmp(SumOfTicks(y)[1], TickOfSum(y)[1]) # 0
          /\ ~IsZero(TickOfSum(y)[1])

\* the descriptors of the first n inputs scaled by row and merged by addition
RECURSIVE Combination(_, _, _)
Combination(row, input, n) ==
    IF n = 1 THEN Scaled(input[1], row[1])
    ELSE combine_linear(Combination(row, input, n - 1), Scaled(input[n], row[n]))

\* C10 as stated: for every shape M, N of the mixer, route returns N
\* descriptors, descriptor i the sum by combine-linear over all M inputs of
\* the input's descriptor scaled by matrix[i][j], and leaves the matrix as it
\* was.
C10_LinearCombination ==
    call.name = "route" =>
       /\ ~result.panic
       /\ DOMAIN result.output = 1..Outputs
       /\ \A i \in 1..Outputs :
             result.output[i] = Combination(unit.matrix[i], call.arg.input, Inputs)
       /\ unit = call.pre

(***************************************************************************)
(* Properties of composed units.                                           *)
(***************************************************************************)
\* u and every unit below it has the counts that the rule of its operator
\* gives: pipe takes the inputs of its first and the outputs of its second
\* operand, whose counts meet; bus keeps the shape its operands share; stack
\* sums inputs and outputs; branch shares the inputs and sums the outputs
RECURSIVE ArityRule(_)
ArityRule(u) ==
    LET a == u.kids[1]
        b == u.kids[2]
    IN  /\ CASE u.op = "pipe" ->
                  a.outputs = b.inputs /\ u.inputs = a.inputs /\ u.outputs = b.outputs
             [] u.op = "bus" ->
                  /\ a.inputs = b.inputs /\ a.outputs = b.outputs
                  /\ u.inputs = a.inputs /\ u.outputs = a.outputs
             [] u.op = "stack" ->
                  u.inputs = a.inputs + b.inputs /\ u.outputs = a.outputs + b.outputs
             [] u.op = "branch" ->
                  /\ a.inputs = b.inputs
                  /\ u.inputs = a.inputs /\ u.outputs = a.outputs + b.outputs
             [] u.op = "mul" -> u.inputs = a.inputs /\ u.outputs = a.outputs
             [] u.op = "pan" -> u.inputs \in {1, 2} /\ u.outputs = 2
             [] u.op = "mixer" ->
                  /\ u.outputs = Len(u.matrix)
                  /\ \A i \in DOMAIN u.matrix : Len(u.matrix[i]) = u.inputs
             [] OTHER -> u.inputs = 1 /\ u.outputs = 1
        /\ \A i \in DOMAIN u.kids : ArityRule(u.kids[i])

\* pass() & tick(), a composition handed to test_response and to test_misc
PassAndTick == compose("bus", pass, tick_node)

HalfOf(u) == Node("mul", <<u>>, <<<<Half>>>>, u.inputs, u.outputs)

HalvedSum ==
    compose("bus", compose("bus", HalfOf(pass), tick_node),
            compose("pipe", HalfOf(tick_node), tick_node))

PlainSum == compose("bus", PassAndTick, compose("pipe", tick_node, tick_node))

\* epsilon of test_misc: the f64 1.0e-9
MiscEpsilon == [s |-> 0, m |-> <<1685, 621, 3048, 736, 17>>, e |-> -82]

\* signal is a response less than tolerance away from the real gain re
Near(signal, re, tolerance) ==
    /\ signal.kind = "response"
    /\ Lt(ExAdd(ExMul(ExSub(signal.re, re), ExSub(signal.re, re)), ExMul(signal.im, signal.im)),
          ExMul(tolerance, tolerance))

AtNyquist == call.name = "route" /\ call.arg.frequency = Num(22050)

\* C12: at 22050 Hz the response of pass() & tick() and that of
\* 0.5 * pass() & tick() & 0.5 * tick() >> tick() are within the epsilon of
\* test_misc of 0, and that of pass() & tick() & tick() >> tick() is within
\* it of 1, so its magnitude is above 0.1
C12_NyquistSums ==
    AtNyquist =>
       /\ unit = PassAndTick => Near(result[1], Num(0), MiscEpsilon)
       /\ unit = HalvedSum => Near(result[1], Num(0), MiscEpsilon)
       /\ unit = PlainSum =>
             Near(result[1], One, MiscEpsilon) /\ ~Near(result[1], Num(0), Tenth)

\* the halved sum has answered at 22050 Hz
C12_Witness ==
    /\ AtNyquist
    /\ unit = HalvedSum
    /\ Near(result[1], Num(0), MiscEpsilon)

(***************************************************************************)
(* Properties of the interpolation helpers.                                *)
(***************************************************************************)
\* the call has returned
HasReturned == result # Unwritten

\* x is a number
IsFinite(x) == x.m # <<0>>

Same(x, y) == IsFinite(x) /\ IsFinite(y) /\ Cmp(x, y) = 0

\* C14 as stated: splinem returns y1 at x = 0 and y2 at x = 1, and for every
\* y0, y1, y2, y3 and every x in [0, 1] its result lies between min(y1, y2)
\* and max(y1, y2).
C14_NoOvershoot ==
    call.name = "splinem" /\ HasReturned =>
       /\ IsZero(call.arg.x) => Same(result, call.arg.y1)
       /\ call.arg.x = One => Same(result, call.arg.y2)
       /\ Le(min(call.arg.y1, call.arg.y2), result)
       /\ Le(result, max(call.arg.y1, call.arg.y2))

\* C15 as stated: for every sharpness in [0, 1] sigmoid(sharpness) maps 0 to 0
\* and 1 to 1, and sigmoid(0) maps every x in [0, 1] to x.
C15_SigmoidEases ==
    call.name = "sigmoid" /\ HasReturned =>
       /\ IsZero(call.arg.x) => IsZero(result)
       /\ call.arg.x = One => result = One
       /\ IsZero(call.arg.sharpness) => Same(result, call.arg.x)

\* the parameters t of the model that lerp, or lerp11, takes to the x of the call
LerpParams == {t \in Params(Sample) : lerp(Sample, call.arg.a, call.arg.b, t) = call.arg.x}

Lerp11Params == {t \in Params(Sample) : lerp11(Sample, call.arg.a, call.arg.b, t) = call.arg.x}

\* |b - a| and |a| + |b| for the ends of the call
Span == Abs(ExSub(call.arg.b, call.arg.a))

Reach == ExAdd(Abs(call.arg.a), Abs(call.arg.b))

\* the result is t within 8 machine epsilons of (1 + |t|) * (1 + (|a| + |b|) / |b - a|)
Recovers(t) ==
    /\ IsFinite(result)
    /\ Le(ExMul(Abs(ExSub(result, t)), Span),
          ExMul(ExMul(Scale2(Epsilon(Sample), 3), ExAdd(One, Abs(t))), ExAdd(Span, Reach)))

\* lerp returns a at t = 0 and b at t = 1
LerpEnds ==
    call.name = "lerp" /\ HasReturned =>
       /\ IsZero(call.arg.t) => Same(result, call.arg.a)
       /\ call.arg.t = One => Same(result, call.arg.b)

\* C16 as stated: lerp(a, b, 0) is a and lerp(a, b, 1) is b, and for a # b
\* delerp(a, b, lerp(a, b, t)) is t and delerp11(a, b, lerp11(a, b, t)) is t.
C16_RoundTripExact ==
    /\ LerpEnds
    /\ call.name = "delerp" /\ HasReturned /\ call.arg.a # call.arg.b =>
          \A t \in LerpParams : Same(result, t)
    /\ call.name = "delerp11" /\ HasReturned /\ call.arg.a # call.arg.b =>
          \A t \in Lerp11Params : Same(result, t)

\* C16: lerp(a, b, 0) is a and lerp(a, b, 1) is b, and for a # b
\* delerp(a, b, lerp(a, b, t)) and delerp11(a, b, lerp11(a, b, t)) are t up to
\* rounding: within 8 machine epsilons of (1 + |t|) * (1 + (|a| + |b|) / |b - a|).
C16_RoundTripRounded ==
    /\ LerpEnds
    /\ call.name = "delerp" /\ HasReturned /\ call.arg.a # call.arg.b =>
          \A t \in LerpParams : Recovers(t)
    /\ call.name = "delerp11" /\ HasReturned /\ call.arg.a # call.arg.b =>
          \A t \in Lerp11Params : Recovers(t)

C16_Witness ==
    /\ call.name = "delerp" /\ HasReturned
    /\ call.arg.a # call.arg.b
    /\ ~IsZero(call.arg.a)
    /\ \E t \in LerpParams : ~Same(result, t) /\ Recovers(t) /\ ~IsZero(t)

\* the call is degenerate: a de-interpolation over an interval of length zero,
\* or an exponential interpolation with an end that is not positive
ZeroInterval ==
    /\ call.name \in {"delerp", "delerp11", "dexerp", "dexerp11"}
    /\ call.arg.a = call.arg.b

BadEnd ==
    /\ call.name \in {"xerp", "xerp11"}
    /\ (Le(call.arg.a, Num(0)) \/ Le(call.arg.b, Num(0)))

====
